---- MODULE Spec2Model ----
(***************************************************************************)
(* A state-machine model of ai-code-writer/bootstrap_mongo_logger.py:     *)
(* one process running main(), i.e. MongoLoggerBootstrap.__init__ (the    *)
(* initial state), then connect_to_mongodb, setup_database_and_collection *)
(* (with create_indexes), export_collection_handle, get_collection_stats, *)
(* the exception handlers of main and cleanup.                            *)
(*                                                                         *)
(* Every call the script makes on the outside world (the MongoDB driver,  *)
(* the file system) is one action; its result is chosen by the outside    *)
(* world: "ok", a fault (an Exception of some class) or a                 *)
(* KeyboardInterrupt, which is a BaseException and therefore passes every *)
(* `except Exception` of the script and reaches main's handler.           *)
(***************************************************************************)
EXTENDS Integers, Sequences, FiniteSets, TLC

\* The wall clock reads 0..MaxClock, in seconds.
MaxClock == 1

VARIABLES
    \* ---- the inputs of the run (fixed by the command line, the process
    \*      environment and the installed driver)
    test_connection_only,  \* args.test_connection_only
    truth_test_raises,     \* bool(Collection) raises NotImplementedError
                           \* (PyMongo >= 4.0) instead of giving True (3.x)
    now,                   \* the wall clock, in seconds
    constructed_at,        \* the reading of datetime.now() at line 39 (None: not read)
    \* ---- the fields of the MongoLoggerBootstrap instance
    mongo_uri,
    test_mode,
    db_name,
    collection_name,
    client,                \* "None" or "MongoClient"
    db,                    \* "None" or "Database"
    collection,            \* "None" or "Collection"
    connection_info,       \* a dict: a function from keys to values
    \* ---- locals of the running functions
    pc,                    \* the statement the process is at
    idx,                   \* position of create_indexes in its catalogue
    indexes_created,       \* the local list of create_indexes
    stats,                 \* run_bootstrap's stats: "unset", "None", "collection_info"
    \* ---- the outside world
    documents,             \* the documents of the target collection
    config_file,           \* mongo_logger_config.json
    env_file,              \* mongo_logger_env.sh
    close_count,           \* number of MongoClient.close() calls
    exit_code,             \* the argument of sys.exit; -1 before it is called
    calls                  \* the log of the calls made on the outside world

vars == <<test_connection_only, truth_test_raises, now, constructed_at, mongo_uri, test_mode,
          db_name, collection_name, client, db, collection, connection_info,
          pc, idx, indexes_created, stats, documents, config_file, env_file,
          close_count, exit_code, calls>>

inputs == <<test_connection_only, truth_test_raises, constructed_at, mongo_uri,
            test_mode, db_name, collection_name>>

----------------------------------------------------------------------------
(* Python values *)

None == "None"

\* The empty dict {} of line 35.
EmptyDict == [k \in {} |-> None]

\* dict.update(new) / d[k] = v: the new entries win.
DictUpdate(d, new) == new @@ d

\* `x or y` on strings (line 30): the empty string and None are falsy.
Or(x, y) == IF x = None \/ x = "" THEN y ELSE x

\* os.getenv(name, default): the value of a set variable (the empty string
\* included), the default when the variable is not set.
Getenv(value, default) == IF value = None THEN default ELSE value

----------------------------------------------------------------------------
(* __init__, lines 22-44 *)

\* A zero-padded field of two digits: %m, %d, %H, %M, %S.
Pad2(n) == (IF n < 10 THEN "0" ELSE "") \o ToString(n)

\* The local date and time of the clock reading t. Reading 0 is
\* 2025-12-31 23:59:58, so that readings two seconds apart cross the end of a minute,
\* an hour, a day, a month and a year; the days after it are those of January.
DateTimeOf(t) ==
    LET total == 86398 + t
        day == total \div 86400
        sod == total % 86400
    IN  [year |-> IF day = 0 THEN 2025 ELSE 2026,
         month |-> IF day = 0 THEN 12 ELSE 1,
         day |-> IF day = 0 THEN 31 ELSE day,
         hour |-> sod \div 3600,
         minute |-> (sod % 3600) \div 60,
         second |-> sod % 60]

\* Mutant: the stamp stops at the minute ('%Y%m%d_%H%M').
StrftimeToMinute(t) ==
    LET d == DateTimeOf(t)
    IN  ToString(d.year) \o Pad2(d.month) \o Pad2(d.day) \o "_"
        \o Pad2(d.hour) \o Pad2(d.minute)

\* datetime.now().strftime('%Y%m%d_%H%M%S') of the clock reading t (line 39).
Strftime(t) ==
    LET d == DateTimeOf(t)
    IN  ToString(d.year) \o Pad2(d.month) \o Pad2(d.day) \o "_"
        \o Pad2(d.hour) \o Pad2(d.minute) \o Pad2(d.second)

DbNameOf(mode, t, env_db) ==
    IF mode THEN "mcp_test_logs_" \o Strftime(t)
    ELSE Getenv(env_db, "mcp_tool_logs")

CollectionNameOf(mode, t, env_coll) ==
    IF mode THEN "tool_executions_" \o Strftime(t)
    ELSE Getenv(env_coll, "tool_executions")

MongoUriOf(arg_uri, env_uri) ==
    Or(arg_uri, Getenv(env_uri, "mongodb://localhost:27017"))

\* What the command line and the environment hold in the runs explored:
\* --mongo-uri given or not, MONGODB_URI set, each name variable unset or set
\* to the empty string.
ArgUris == {None, "mongodb://cli:27017"}
EnvUris == {"mongodb://env:27017"}
EnvDbNames == {None, ""}
EnvCollectionNames == {None, ""}
Clock == 0..MaxClock

\* Lines 119-125: the probe document.
TestDoc(mode, t) ==
    [_id |-> "bootstrap_test", type |-> "bootstrap_verification", timestamp |-> t,
     test_mode |-> mode, created_by |-> "bootstrap_mongo_logger.py"]

\* The probe an earlier production run left in the target collection (its
\* timestamp lies before the clock readings of this run).
EarlierProbe == TestDoc(FALSE, -1)

Init ==
    /\ test_connection_only \in BOOLEAN
    /\ truth_test_raises \in BOOLEAN
    /\ now \in Clock
    /\ test_mode \in BOOLEAN
    /\ constructed_at = (IF test_mode THEN now ELSE None)
    /\ \E arg_uri \in ArgUris, env_uri \in EnvUris :
           mongo_uri = MongoUriOf(arg_uri, env_uri)
    /\ \E env_db \in EnvDbNames, env_coll \in EnvCollectionNames :
           /\ db_name = DbNameOf(test_mode, now, env_db)
           /\ collection_name = CollectionNameOf(test_mode, now, env_coll)
    /\ client = None
    /\ db = None
    /\ collection = None
    /\ connection_info = EmptyDict
    /\ pc = "MongoClient"
    /\ idx = 1
    /\ indexes_created = <<>>
    /\ stats = "unset"
    \* a test-mode run targets a fresh, timestamped collection; a production
    \* run targets a fixed one, which an earlier run may have written to
    /\ documents \in (IF test_mode THEN {{}} ELSE {{}, {EarlierProbe}})
    /\ config_file = [exists |-> FALSE, data |-> <<>>]
    /\ env_file = [exists |-> FALSE, data |-> <<>>]
    /\ close_count = 0
    /\ exit_code = -1
    /\ calls = <<>>

----------------------------------------------------------------------------
(* control flow of main (lines 358-381) and run_bootstrap (lines 268-312) *)

KeyboardInterrupt == "KeyboardInterrupt"

\* sys.exit(code) raises SystemExit, which no handler of main catches: the
\* finally clause runs next.
SysExit(code) == [pc |-> "finally", exit_code |-> code]

Goto(p) == [pc |-> p, exit_code |-> exit_code]

\* An exception leaving the try block of main: lines 374-379.
Raise(e) ==
    IF e = KeyboardInterrupt THEN Goto("except KeyboardInterrupt")
    ELSE Goto("except Exception")

\* Mutant: run_bootstrap goes on to provisioning after a failed connect.
AfterConnectIgnoringFailure(success) ==
    IF test_connection_only
    THEN (IF success THEN SysExit(0) ELSE SysExit(1))
    ELSE Goto("select handles")

\* Mutant: main ignores --test-connection-only and always runs the bootstrap.
AfterConnectAlwaysFull(success) ==
    IF success THEN Goto("select handles") ELSE SysExit(1)

\* Where connect_to_mongodb returns to: lines 362-368 and 277-279, 372.
AfterConnect(success) ==
    IF test_connection_only
    THEN (IF success THEN SysExit(0) ELSE SysExit(1))
    ELSE (IF success THEN Goto("select handles") ELSE SysExit(1))

Log(op, arg, result) == Append(calls, [op |-> op, arg |-> arg, result |-> result])

Jump(target) ==
    /\ pc' = target.pc
    /\ exit_code' = target.exit_code

----------------------------------------------------------------------------
(* connect_to_mongodb, lines 46-99 *)

ConnectFaults == {"ServerSelectionTimeoutError", "ConfigurationError", "Exception"}

\* The three handlers, lines 83-99.
ConnectErrorMsg(e) ==
    IF e = "ServerSelectionTimeoutError"
    THEN "Could not connect to MongoDB at " \o mongo_uri \o " - Check if MongoDB is running"
    ELSE IF e = "ConfigurationError"
    THEN "MongoDB configuration error: " \o e
    ELSE "Unexpected error connecting to MongoDB: " \o e

FailedInfo(e) == ("status" :> "failed") @@ ("error" :> ConnectErrorMsg(e))

\* Lines 71-78.
ConnectedInfo(version) ==
    ("status" :> "connected") @@ ("mongo_uri" :> mongo_uri)
    @@ ("server_version" :> version) @@ ("connection_time" :> now)
    @@ ("database_name" :> db_name) @@ ("collection_name" :> collection_name)

\* Mutant: without the catch-all handler of lines 95-99 a fault of any other
\* class leaves connect_to_mongodb.
ConnectFailedSpecificOnly(op, r) ==
    /\ calls' = Log(op, <<>>, r)
    /\ IF r \in {KeyboardInterrupt, "Exception"}
       THEN /\ Jump(Raise(r))
            /\ UNCHANGED connection_info
       ELSE /\ connection_info' = FailedInfo(r)
            /\ Jump(AfterConnect(FALSE))

\* A fault or an interrupt inside the try block of connect_to_mongodb.
ConnectFailed(op, r) ==
    /\ calls' = Log(op, <<>>, r)
    /\ IF r = KeyboardInterrupt
       THEN /\ Jump(Raise(r))
            /\ UNCHANGED connection_info
       ELSE /\ connection_info' = FailedInfo(r)
            /\ Jump(AfterConnect(FALSE))

\* Lines 54-63: self.client = MongoClient(...).
NewMongoClient ==
    /\ pc = "MongoClient"
    /\ \E r \in {"ok", KeyboardInterrupt} \cup ConnectFaults :
        IF r = "ok"
        THEN /\ client' = "MongoClient"
             /\ calls' = Log("MongoClient", <<>>, r)
             /\ pc' = "ping"
             /\ UNCHANGED <<connection_info, exit_code>>
        ELSE /\ ConnectFailed("MongoClient", r)
             /\ UNCHANGED client
    /\ UNCHANGED <<inputs, now, db, collection, idx, indexes_created, stats,
                   documents, config_file, env_file, close_count>>

\* Line 66: self.client.admin.command('ping').
Ping ==
    /\ pc = "ping"
    /\ \E r \in {"ok", KeyboardInterrupt} \cup ConnectFaults :
        IF r = "ok"
        THEN /\ calls' = Log("ping", <<>>, r)
             /\ pc' = "server_info"
             /\ UNCHANGED <<connection_info, exit_code>>
        ELSE ConnectFailed("ping", r)
    /\ UNCHANGED <<inputs, now, client, db, collection, idx, indexes_created,
                   stats, documents, config_file, env_file, close_count>>

\* Mutant: server_info() is called in a try block of its own, and a fault
\* leaves the version unknown.
ServerInfoFaultTolerant ==
    /\ pc = "server_info"
    /\ \E r \in {"ok", KeyboardInterrupt} \cup ConnectFaults :
        IF r # KeyboardInterrupt
        THEN /\ calls' = Log("server_info", <<>>, r)
             /\ connection_info' = ConnectedInfo(IF r = "ok" THEN "7.0" ELSE None)
             /\ Jump(AfterConnect(TRUE))
        ELSE ConnectFailed("server_info", r)
    /\ UNCHANGED <<inputs, now, client, db, collection, idx, indexes_created,
                   stats, documents, config_file, env_file, close_count>>

\* Lines 69-81: server_info = self.client.server_info(), the status, return True.
ServerInfo ==
    /\ pc = "server_info"
    /\ \E r \in {"ok", KeyboardInterrupt} \cup ConnectFaults :
        IF r = "ok"
        THEN /\ calls' = Log("server_info", <<>>, r)
             /\ connection_info' = ConnectedInfo("7.0")
             /\ Jump(AfterConnect(TRUE))
        ELSE ConnectFailed("server_info", r)
    /\ UNCHANGED <<inputs, now, client, db, collection, idx, indexes_created,
                   stats, documents, config_file, env_file, close_count>>

----------------------------------------------------------------------------
(* create_indexes, lines 150-194 *)

\* Lines 154-159.
indexes ==
    << <<"toolName", 1>>, <<"startTime", -1>>, <<"sessionId", 1>>, <<"success", 1>> >>

\* Lines 161-165.
compound_indexes ==
    << << <<"toolName", 1>>, <<"startTime", -1>> >>,
       << <<"sessionId", 1>>, <<"startTime", -1>> >>,
       << <<"success", 1>>, <<"startTime", -1>> >> >>

\* f"{field}_{direction}", lines 174 and 183.
FieldDirection(fd) == fd[1] \o "_" \o ToString(fd[2])

RECURSIVE Join(_, _)
\* sep.join(parts)
Join(parts, sep) ==
    IF Len(parts) = 0 THEN ""
    ELSE IF Len(parts) = 1 THEN parts[1]
    ELSE parts[1] \o sep \o Join(Tail(parts), sep)

\* Line 183: the name a created compound index is reported under.
CompoundName(fields) ==
    Join([i \in 1..Len(fields) |-> FieldDirection(fields[i])], "_")

\* The catalogue in the order the two loops go through it: the key list of
\* the i-th create_index call (lines 173 and 182) ...
IndexKeys(i) ==
    IF i <= Len(indexes) THEN << indexes[i] >>
    ELSE compound_indexes[i - Len(indexes)]

\* ... and the name recorded for it in indexes_created (lines 174, 183-184).
IndexName(i) ==
    IF i <= Len(indexes) THEN FieldDirection(indexes[i])
    ELSE CompoundName(compound_indexes[i - Len(indexes)])

NumIndexes == Len(indexes) + Len(compound_indexes)

\* Mutant: the name is recorded whether or not the request succeeded.
IndexesAfterAppendAlways(created, i, r) == Append(created, IndexName(i))

\* Lines 172-177 and 181-188: the body of either loop for one request with
\* result r: the name is appended on success, a fault is printed and dropped.
IndexesAfter(created, i, r) ==
    IF r = "ok" THEN Append(created, IndexName(i)) ELSE created

\* Mutant: without the inner handlers a failed request ends create_indexes
\* through its outer handler (line 192).
AfterIndexAbortOnFault(i, r) ==
    IF i < NumIndexes /\ r = "ok" THEN Goto("create_index") ELSE Goto("insert_one")

\* Where the loops go after request i: the next request, or line 190, the
\* return into setup_database_and_collection at line 119.
AfterIndex(i, r) ==
    IF i < NumIndexes THEN Goto("create_index") ELSE Goto("insert_one")

\* One iteration of either loop.
CreateIndex(i) ==
    \E r \in {"ok", "Exception", KeyboardInterrupt} :
        /\ calls' = Log("create_index", IndexKeys(i), r)
        /\ IF r = KeyboardInterrupt
           THEN /\ Jump(Raise(r))
                /\ UNCHANGED <<idx, indexes_created>>
           ELSE /\ indexes_created' = IndexesAfter(indexes_created, i, r)
                /\ idx' = i + 1
                /\ Jump(AfterIndex(i, r))

\* Lines 171-177: the loop over the single field indexes.
CreateSingleIndex ==
    /\ pc = "create_index"
    /\ idx \in 1..Len(indexes)
    /\ CreateIndex(idx)
    /\ UNCHANGED <<inputs, now, client, db, collection, connection_info, stats,
                   documents, config_file, env_file, close_count>>

\* Lines 180-188: the loop over the compound indexes.
CreateCompoundIndex ==
    /\ pc = "create_index"
    /\ idx \in (Len(indexes) + 1)..NumIndexes
    /\ CreateIndex(idx)
    /\ UNCHANGED <<inputs, now, client, db, collection, connection_info, stats,
                   documents, config_file, env_file, close_count>>

----------------------------------------------------------------------------
(* setup_database_and_collection, lines 101-148 *)

\* Mutant: run_bootstrap asks for the statistics right after provisioning.
AfterSetupStatsFirst(success) ==
    IF success THEN Goto("stats") ELSE SysExit(1)

\* Mutant: run_bootstrap does not look at what the provisioning returned.
AfterSetupIgnoringFailure(success) == Goto("export")

\* Where setup_database_and_collection returns to: lines 282-284, 372.
AfterSetup(success) ==
    IF success THEN Goto("export") ELSE SysExit(1)

\* Mutant: the handler prints the error and records nothing.
SetupErrorInfoDropped(info, e) == info

\* Lines 144-148: the handler of setup_database_and_collection.
SetupErrorInfo(info, e) ==
    DictUpdate(info, "setup_error" :> ("Failed to setup database/collection: " \o e))

\* Lines 135-140.
SetupDoneInfo(info, created) ==
    DictUpdate(info, ("database_created" :> TRUE) @@ ("collection_created" :> TRUE)
                     @@ ("indexes_created" :> created)
                     @@ ("test_document_inserted" :> TRUE))

\* Mutant: the handler records the error but provisioning reports success.
SetupFailedReportsSuccess(r) ==
    IF r = KeyboardInterrupt
    THEN /\ Jump(Raise(r))
         /\ UNCHANGED connection_info
    ELSE /\ connection_info' = SetupErrorInfo(connection_info, r)
         /\ Jump(AfterSetup(TRUE))

\* A fault or an interrupt inside the try block of lines 105-142.
SetupFailed(r) ==
    IF r = KeyboardInterrupt
    THEN /\ Jump(Raise(r))
         /\ UNCHANGED connection_info
    ELSE /\ connection_info' = SetupErrorInfo(connection_info, r)
         /\ Jump(AfterSetup(FALSE))

\* Lines 107-113: self.db = self.client[self.db_name] and
\* self.collection = self.db[self.collection_name]. No request is sent; the
\* driver raises InvalidName for an empty database or collection name.
SelectHandles ==
    /\ pc = "select handles"
    /\ db' = IF db_name # "" THEN "Database" ELSE db
    /\ IF db_name # "" /\ collection_name # ""
       THEN /\ collection' = "Collection"
            /\ calls' = Log("get_collection", <<>>, "ok")
            /\ pc' = "create_index"
            /\ UNCHANGED <<connection_info, exit_code>>
       ELSE /\ calls' = Log("get_collection", <<>>, "InvalidName")
            /\ SetupFailed("InvalidName")
            /\ UNCHANGED collection
    /\ idx' = 1
    /\ indexes_created' = <<>>
    /\ UNCHANGED <<inputs, now, client, stats, documents, config_file, env_file,
                   close_count>>

HasProbe(docs) == \E d \in docs : d._id = "bootstrap_test"

\* Lines 119-128: self.collection.insert_one(test_doc). The server refuses a
\* second document with the same _id (DuplicateKeyError).
InsertProbe ==
    /\ pc = "insert_one"
    /\ \E r \in (IF HasProbe(documents) THEN {"DuplicateKeyError"} ELSE {"ok"})
                \cup {"Exception", KeyboardInterrupt} :
        /\ calls' = Log("insert_one", <<>>, r)
        /\ IF r = "ok"
           THEN /\ documents' = documents \cup {TestDoc(test_mode, now)}
                /\ pc' = "find_one"
                /\ UNCHANGED <<connection_info, exit_code>>
           ELSE /\ SetupFailed(r)
                /\ UNCHANGED documents
    /\ UNCHANGED <<inputs, now, client, db, collection, idx, indexes_created,
                   stats, config_file, env_file, close_count>>

\* What setup_database_and_collection does with the result of find_one:
\* lines 132-142. The result is only printed; the status is updated and True
\* returned whether or not a document came back.
AfterFind(r) == AfterSetup(TRUE)

\* Lines 131-142: retrieved = self.collection.find_one({'_id': 'bootstrap_test'}).
\* The document just written comes back unless it is gone again (deleted by
\* another client, or read from a member that does not have it yet).
FindProbe ==
    /\ pc = "find_one"
    /\ \E r \in (IF HasProbe(documents) THEN {"document"} ELSE {})
                \cup {"None", "Exception", KeyboardInterrupt} :
        /\ calls' = Log("find_one", <<>>, r)
        /\ IF r \in {"document", "None"}
           THEN /\ connection_info' = SetupDoneInfo(connection_info, indexes_created)
                /\ Jump(AfterFind(r))
           ELSE SetupFailed(r)
    /\ UNCHANGED <<inputs, now, client, db, collection, idx, indexes_created,
                   stats, documents, config_file, env_file, close_count>>

----------------------------------------------------------------------------
(* export_collection_handle, lines 196-242 *)

\* `not self.collection` (lines 200 and 248). None is falsy. PyMongo 3.x
\* defines neither __bool__ nor __len__ on Collection, so a handle is truthy;
\* since PyMongo 4.0 Collection.__bool__ raises NotImplementedError
\* ("Collection objects do not implement truth value testing or bool()").
Not(handle) ==
    IF handle = None THEN "True"
    ELSE IF truth_test_raises THEN "NotImplementedError"
    ELSE "False"

\* Mutant: run_bootstrap does not look at what the export returned.
AfterExportIgnoringFailure(config) == Goto("stats")

\* Where export_collection_handle returns to: lines 287-293, 372.
AfterExport(config) ==
    IF config # None THEN Goto("stats") ELSE SysExit(1)

\* Lines 200-202.
ExportCheckHandle ==
    /\ pc = "export"
    /\ calls' = Log("bool(collection)", <<>>, Not(collection))
    /\ Jump(IF Not(collection) = "True" THEN AfterExport(None)
            ELSE IF Not(collection) = "False" THEN Goto("write config")
            ELSE Raise(Not(collection)))
    /\ UNCHANGED <<inputs, now, client, db, collection, connection_info, idx,
                   indexes_created, stats, documents, config_file, env_file,
                   close_count>>

\* Lines 205-212.
MongoConfig ==
    [mongodb_uri |-> mongo_uri, database_name |-> db_name,
     collection_name |-> collection_name, connection_info |-> connection_info,
     bootstrap_timestamp |-> now, test_mode |-> test_mode]

\* Lines 223-228: the text of mongo_logger_env.sh, line by line.
ExportLine(name, value) == [kind |-> "export", name |-> name, value |-> value]

EnvExports ==
    << [kind |-> "blank", name |-> "", value |-> ""],
       [kind |-> "comment", name |-> "",
        value |-> "MongoDB Logger Configuration (generated by bootstrap_mongo_logger.py)"],
       ExportLine("MONGODB_URI", mongo_uri),
       ExportLine("MONGODB_LOGGER_DB", db_name),
       ExportLine("MONGODB_LOGGER_COLLECTION", collection_name) >>

\* open(path, 'w') followed by one write: the whole text on success; when the
\* call fails the file is either not there or there and cut short.
FileAfterWrite(file, text, r, created) ==
    IF r = "ok" THEN [exists |-> TRUE, data |-> text]
    ELSE IF created THEN [exists |-> TRUE, data |-> <<>>]
    ELSE file

\* Mutant: the handler prints the fault and the export goes on to report
\* success.
ExportFailedReportsSuccess(r) ==
    IF r = KeyboardInterrupt THEN Jump(Raise(r)) ELSE Jump(AfterExport("mongo_config"))

\* A fault or an interrupt inside the try block of lines 216-238: the handler
\* of lines 240-242 returns None.
ExportFailed(r) ==
    IF r = KeyboardInterrupt THEN Jump(Raise(r)) ELSE Jump(AfterExport(None))

\* Lines 215-220: json.dump(mongo_config) into mongo_logger_config.json.
WriteConfig ==
    /\ pc = "write config"
    /\ \E r \in {"ok", "OSError", KeyboardInterrupt}, created \in BOOLEAN :
        /\ r = "ok" => created
        /\ calls' = Log("write mongo_logger_config.json", <<>>, r)
        /\ config_file' = FileAfterWrite(config_file, <<MongoConfig>>, r, created)
        /\ IF r = "ok"
           THEN /\ pc' = "write env"
                /\ UNCHANGED exit_code
           ELSE ExportFailed(r)
    /\ UNCHANGED <<inputs, now, client, db, collection, connection_info, idx,
                   indexes_created, stats, documents, env_file, close_count>>

\* Lines 223-238: the exports into mongo_logger_env.sh, return mongo_config.
WriteEnv ==
    /\ pc = "write env"
    /\ \E r \in {"ok", "OSError", KeyboardInterrupt}, created \in BOOLEAN :
        /\ r = "ok" => created
        /\ calls' = Log("write mongo_logger_env.sh", <<>>, r)
        /\ env_file' = FileAfterWrite(env_file, EnvExports, r, created)
        /\ IF r = "ok"
           THEN Jump(AfterExport("mongo_config"))
           ELSE ExportFailed(r)
    /\ UNCHANGED <<inputs, now, client, db, collection, connection_info, idx,
                   indexes_created, stats, documents, config_file, close_count>>

----------------------------------------------------------------------------
(* get_collection_stats, lines 244-266, and the end of run_bootstrap *)

\* Lines 251-266: what get_collection_stats returns for the result of the
\* collStats command.
StatsOf(r) == IF r = "ok" THEN "collection_info" ELSE None

\* Mutant: run_bootstrap treats missing statistics as a failed run.
AfterStatsRequiresStats(s) == IF s = None THEN SysExit(1) ELSE SysExit(0)

\* Lines 295-312 and 372: the summary is printed, run_bootstrap returns True
\* and main exits with 0, whatever stats is.
AfterStats(s) == SysExit(0)

\* Lines 248-249 (and 293-312, 372 when None is returned here).
StatsCheckHandle ==
    /\ pc = "stats"
    /\ calls' = Log("bool(collection)", <<>>, Not(collection))
    /\ stats' = IF Not(collection) = "True" THEN None ELSE stats
    /\ Jump(IF Not(collection) = "True" THEN AfterStats(None)
            ELSE IF Not(collection) = "False" THEN Goto("collStats")
            ELSE Raise(Not(collection)))
    /\ UNCHANGED <<inputs, now, client, db, collection, connection_info, idx,
                   indexes_created, documents, config_file, env_file, close_count>>

\* Lines 251-266 and 293-312, 372: self.db.command('collStats', ...).
CollStats ==
    /\ pc = "collStats"
    /\ \E r \in {"ok", "Exception", KeyboardInterrupt} :
        /\ calls' = Log("collStats", <<>>, r)
        /\ IF r = KeyboardInterrupt
           THEN /\ Jump(Raise(r))
                /\ UNCHANGED stats
           ELSE /\ stats' = StatsOf(r)
                /\ Jump(AfterStats(StatsOf(r)))
    /\ UNCHANGED <<inputs, now, client, db, collection, connection_info, idx,
                   indexes_created, documents, config_file, env_file, close_count>>

----------------------------------------------------------------------------
(* main's handlers and cleanup, lines 374-381 and 314-323 *)

\* Lines 374-376.
ExceptKeyboardInterrupt ==
    /\ pc = "except KeyboardInterrupt"
    /\ Jump(SysExit(1))
    /\ UNCHANGED <<inputs, now, client, db, collection, connection_info, idx,
                   indexes_created, stats, documents, config_file, env_file,
                   close_count, calls>>

\* Lines 377-379.
ExceptException ==
    /\ pc = "except Exception"
    /\ Jump(SysExit(1))
    /\ UNCHANGED <<inputs, now, client, db, collection, connection_info, idx,
                   indexes_created, stats, documents, config_file, env_file,
                   close_count, calls>>

\* Mutant: cleanup is called at the end of a successful run only, not from
\* a finally clause.
CleanupOnSuccessOnly ==
    /\ pc = "finally"
    /\ IF client # None /\ exit_code = 0
       THEN /\ close_count' = close_count + 1
            /\ \E r \in {"ok", "Exception"} : calls' = Log("close", <<>>, r)
       ELSE UNCHANGED <<close_count, calls>>
    /\ pc' = "exited"
    /\ UNCHANGED <<inputs, now, client, db, collection, connection_info, idx,
                   indexes_created, stats, documents, config_file, env_file,
                   exit_code>>

\* Lines 380-381 with 318-323: the client is closed if there is one; a fault
\* of close() is caught and reported (line 322). Then the process ends.
Cleanup ==
    /\ pc = "finally"
    /\ IF client # None
       THEN /\ close_count' = close_count + 1
            /\ \E r \in {"ok", "Exception"} : calls' = Log("close", <<>>, r)
       ELSE UNCHANGED <<close_count, calls>>
    /\ pc' = "exited"
    /\ UNCHANGED <<inputs, now, client, db, collection, connection_info, idx,
                   indexes_created, stats, documents, config_file, env_file,
                   exit_code>>

\* The steps that read the wall clock: connection_time (line 75), the
\* timestamp of the probe (line 122), bootstrap_timestamp (line 210).
ClockReads == {"server_info", "insert_one", "write config"}

\* The wall clock advances while the process runs; an advance shows only in
\* the next reading, so the clock is moved right before a step that reads it.
Tick ==
    /\ pc \in ClockReads
    /\ now < MaxClock
    /\ now' = now + 1
    /\ UNCHANGED <<inputs, client, db, collection, connection_info, pc, idx,
                   indexes_created, stats, documents, config_file, env_file,
                   close_count, exit_code, calls>>

----------------------------------------------------------------------------
(* What a state says about the run so far *)

Made(op) == {i \in DOMAIN calls : calls[i].op = op}

Called(op) == \E i \in DOMAIN calls : calls[i].op = op

\* The call op was made and ended with a result in rs.
Ended(op, rs) ==
    \E i \in DOMAIN calls : calls[i].op = op /\ calls[i].result \in rs

Exited == pc = "exited"

Interrupted == \E i \in DOMAIN calls : calls[i].result = KeyboardInterrupt

\* connect_to_mongodb returned True / setup_database_and_collection returned
\* True: the status each leaves right before its `return True`.
Connected ==
    "status" \in DOMAIN connection_info /\ connection_info["status"] = "connected"

Provisioned == "test_document_inserted" \in DOMAIN connection_info

ProvisioningOps == {"get_collection", "create_index", "insert_one", "find_one"}

LaterOps ==
    ProvisioningOps \cup {"bool(collection)", "write mongo_logger_config.json",
                          "write mongo_logger_env.sh", "collStats"}

\* Every request to the server and every file write made so far succeeded.
AllSucceeded ==
    \A i \in DOMAIN calls :
        calls[i].op # "bool(collection)" => calls[i].result \in {"ok", "document"}

ExportLinesOf(file) ==
    [i \in {j \in DOMAIN file.data : file.data[j].kind = "export"} |-> file.data[i].name]

----------------------------------------------------------------------------
(* C1 *)

\* C1: a full run in test mode against a reachable empty instance, in which
\* every request and every file write made succeeds, ends with both
\* mongo_logger_config.json and mongo_logger_env.sh written, the latter with
\* exactly the three export lines MONGODB_URI, MONGODB_LOGGER_DB and
\* MONGODB_LOGGER_COLLECTION, and with exit code 0.
C1_FullTestRunPublishes ==
    (Exited /\ ~test_connection_only /\ test_mode /\ AllSucceeded /\ ~Interrupted)
    => /\ config_file.exists /\ Len(config_file.data) = 1
       /\ env_file.exists
       /\ Cardinality(DOMAIN ExportLinesOf(env_file)) = 3
       /\ {ExportLinesOf(env_file)[i] : i \in DOMAIN ExportLinesOf(env_file)}
            = {"MONGODB_URI", "MONGODB_LOGGER_DB", "MONGODB_LOGGER_COLLECTION"}
       /\ exit_code = 0

\* The same run with a driver whose collection handles are truthy
\* (PyMongo 3.x) does what C1 says.
C1_WithTruthyHandles == truth_test_raises \/ C1_FullTestRunPublishes

C1_TruthyRunDone ==
    /\ Exited /\ ~test_connection_only /\ test_mode /\ AllSucceeded /\ ~Interrupted
    /\ ~truth_test_raises
    /\ exit_code = 0

----------------------------------------------------------------------------
(* C2 *)

\* C2: on every way the process ends, a client that was created is closed
\* exactly once, after every other call of the run and before the process
\* exits; a run that created no client closes nothing, and no client is
\* closed twice.
C2_ClientClosedExactlyOnce ==
    /\ close_count = Cardinality(Made("close"))
    /\ close_count <= (IF client # None THEN 1 ELSE 0)
    /\ Exited => close_count = (IF client # None THEN 1 ELSE 0)
    /\ \A i \in Made("close") : i = Len(calls) /\ Exited /\ exit_code \in {0, 1}

\* A run interrupted in the middle of provisioning has closed its client.
C2_ClosedAfterInterrupt ==
    /\ Exited /\ client # None /\ close_count = 1
    /\ Ended("insert_one", {KeyboardInterrupt})

----------------------------------------------------------------------------
(* C3 *)

Unreachable == Ended("MongoClient", ConnectFaults) \/ Ended("ping", ConnectFaults)

\* C3: a full run whose client construction or ping fails exits with code 1,
\* starts none of provisioning, index installation, verification, statistics
\* or publishing, and writes neither artifact file.
C3_UnreachableExitsOne ==
    (~test_connection_only /\ Unreachable)
    => /\ pc \in {"finally", "exited"} /\ exit_code = 1
       /\ \A op \in LaterOps : ~Called(op)
       /\ db = None /\ collection = None
       /\ ~config_file.exists /\ ~env_file.exists

C3_PingTimedOut ==
    /\ ~test_connection_only /\ Exited
    /\ Ended("ping", {"ServerSelectionTimeoutError"})
    /\ exit_code = 1

----------------------------------------------------------------------------
(* C4 *)

\* A fault raised by the probe write or by the read-back.
ProbeFaults == {"Exception", "DuplicateKeyError"}

ProbeFaulted == Ended("insert_one", ProbeFaults) \/ Ended("find_one", ProbeFaults)

\* C4 as stated: when the probe write or the read-back fails, provisioning
\* still reports success with the collection handle, the sub-error is
\* recorded in the status, and the run goes on to the later stages.
C4_ProbeFailureKeepsProvisioning ==
    (ProbeFaulted /\ Exited)
    => /\ Provisioned
       /\ collection # None
       /\ "setup_error" \in DOMAIN connection_info
       /\ Called("bool(collection)")

\* C4 amended: a fault raised by the probe write or by the read-back makes
\* provisioning fail, exactly like a failure to obtain the handles: the error
\* is recorded under setup_error, no success key is added, the run exits 1 at
\* once and neither publishes nor asks for statistics. Provisioning reports
\* success only when the handles were obtained, the insert completed and the
\* read-back returned without raising (with or without a document), and then
\* no error is recorded.
C4_ProbeFaultFailsProvisioning ==
    /\ (ProbeFaulted \/ Ended("get_collection", {"InvalidName"}))
       => /\ "setup_error" \in DOMAIN connection_info
          /\ ~Provisioned
          /\ pc \in {"finally", "exited"} /\ exit_code = 1
          /\ ~Called("bool(collection)") /\ ~Called("collStats")
          /\ ~config_file.exists /\ ~env_file.exists
    /\ Provisioned
       => /\ Ended("get_collection", {"ok"}) /\ collection # None
          /\ Ended("insert_one", {"ok"})
          /\ Ended("find_one", {"document", "None"})
          /\ "setup_error" \notin DOMAIN connection_info

C4_ReadBackFaulted ==
    /\ Exited /\ Ended("find_one", {"Exception"})
    /\ "setup_error" \in DOMAIN connection_info
    /\ exit_code = 1

----------------------------------------------------------------------------
(* C5 *)

Published == Ended("write mongo_logger_env.sh", {"ok"})

Escaped == Ended("bool(collection)", {"NotImplementedError"})

\* C5 as stated: a full run that is not interrupted exits 0 if and only if
\* connect and provisioning both succeeded; in particular a failure of the
\* artifact publishing does not turn the exit code into 1.
C5_ExitZeroIffProvisioned ==
    (Exited /\ ~test_connection_only /\ ~Interrupted /\ ~Escaped)
    => (exit_code = 0 <=> (Connected /\ Provisioned))

\* C5 amended: a full run exits 0 if and only if connect, provisioning and
\* artifact publishing all succeeded and neither an interrupt nor an
\* unexpected exception reached main; failed index creations and a failed
\* statistics query never change the exit code, while a publishing failure,
\* an interrupt and a connect or provisioning failure always give 1.
C5_ExitZeroIffPublished ==
    (Exited /\ ~test_connection_only)
    => /\ exit_code \in {0, 1}
       /\ exit_code = 0 <=>
            (Connected /\ Provisioned /\ Published /\ ~Interrupted /\ ~Escaped)
       /\ (Interrupted \/ ~Connected \/ ~Provisioned \/ ~Published) => exit_code = 1

C5_ExitZeroDespiteIndexAndStatsFaults ==
    /\ Exited /\ ~test_connection_only /\ exit_code = 0
    /\ Ended("create_index", {"Exception"})
    /\ Ended("collStats", {"Exception"})

----------------------------------------------------------------------------
(* C6 *)

IndexCalls == SelectSeq(calls, LAMBDA c : c.op = "create_index")

\* create_indexes has returned: all its requests were made, none interrupted.
IndexesReturned ==
    LET ic == IndexCalls
    IN  /\ Len(ic) = NumIndexes
        /\ \A i \in 1..NumIndexes : ic[i].result # KeyboardInterrupt

FailedIndexes ==
    LET ic == IndexCalls IN {i \in DOMAIN ic : ic[i].result = "Exception"}

\* The catalogue as the spec declares it: toolName asc, startTime desc,
\* sessionId asc, success asc, then the three compound specs.
DeclaredCatalogue ==
    << << <<"toolName", 1>> >>, << <<"startTime", -1>> >>,
       << <<"sessionId", 1>> >>, << <<"success", 1>> >>,
       << <<"toolName", 1>>, <<"startTime", -1>> >>,
       << <<"sessionId", 1>>, <<"startTime", -1>> >>,
       << <<"success", 1>>, <<"startTime", -1>> >> >>

\* C6: whatever subset of the index requests fails, each of the seven specs
\* of the catalogue is requested exactly once, in declaration order, and
\* create_indexes returns normally: a failed request is followed by the next
\* one, and the probe insert is reached only after all seven requests.
C6_AllIndexesRequestedInOrder ==
    LET ic == IndexCalls
        n == Len(ic)
    IN  /\ n <= Len(DeclaredCatalogue)
        /\ \A i \in 1..n : ic[i].arg = DeclaredCatalogue[i]
        /\ (n > 0 /\ calls[Len(calls)].op = "create_index"
            /\ calls[Len(calls)].result # KeyboardInterrupt)
           => /\ pc = IF n < Len(DeclaredCatalogue)
                     THEN "create_index" ELSE "insert_one"
              /\ idx = n + 1
        /\ (pc = "insert_one" \/ Called("insert_one"))
           => /\ n = Len(DeclaredCatalogue)
              /\ IndexesReturned

C6_AllSevenFailed ==
    /\ pc = "insert_one"
    /\ IndexesReturned
    /\ FailedIndexes = DOMAIN DeclaredCatalogue
    /\ indexes_created = <<>>

----------------------------------------------------------------------------
(* C7 *)

\* The identifiers of the specs whose request succeeded, in declaration order.
SucceededNames ==
    LET ic == IndexCalls
        ok == SelectSeq([i \in 1..Len(ic) |-> i], LAMBDA i : ic[i].result = "ok")
    IN  [k \in 1..Len(ok) |-> IndexName(ok[k])]

\* How provisioning ended: "succeeded", "failed", or "" while it has not.
ProvisionOutcome ==
    IF Provisioned THEN "succeeded"
    ELSE IF "setup_error" \in DOMAIN connection_info THEN "failed"
    ELSE ""

\* The outcome the probe alone decides when no index request fails.
ProbeOutcome ==
    IF Ended("insert_one", ProbeFaults) \/ Ended("find_one", ProbeFaults) THEN "failed"
    ELSE IF Ended("find_one", {"document", "None"}) THEN "succeeded"
    ELSE ""

\* C7: when exactly one of the seven index requests fails, create_indexes
\* reports six successes (so one failure): exactly the identifiers of the six
\* specs that succeeded, in declaration order; the probe insert and the
\* read-back are still performed, and provisioning ends as the probe alone
\* decides, as it does when no index fails.
C7_OneIndexFailureStillVerifies ==
    (IndexesReturned /\ Cardinality(FailedIndexes) <= 1)
    => /\ Len(indexes_created) = NumIndexes - Cardinality(FailedIndexes)
       /\ indexes_created = SucceededNames
       /\ \A k \in FailedIndexes : \A j \in 1..Len(indexes_created) :
              indexes_created[j] # IndexName(k)
       /\ pc = "insert_one" \/ Called("insert_one")
       /\ Ended("insert_one", {"ok"}) => (pc = "find_one" \/ Called("find_one"))
       /\ ProvisionOutcome = ProbeOutcome
       /\ Provisioned => connection_info["indexes_created"] = SucceededNames

C7_OneFailedAndVerified ==
    /\ IndexesReturned
    /\ FailedIndexes = {2}
    /\ indexes_created = <<"toolName_1", "sessionId_1", "success_1",
                           "toolName_1_startTime_-1", "sessionId_1_startTime_-1",
                           "success_1_startTime_-1">>
    /\ Ended("find_one", {"document"})
    /\ Provisioned

----------------------------------------------------------------------------
(* C8 *)

\* C8: with --test-connection-only nothing but the connection is made: no
\* database or collection handle, no index request, no probe document, no
\* statistics query and no artifact file; the process exits 0 when the
\* connection succeeded and 1 when it did not.
C8_ConnectionOnlyTouchesNothing ==
    test_connection_only
    => /\ db = None /\ collection = None
       /\ \A op \in LaterOps : ~Called(op)
       /\ documents \subseteq {EarlierProbe}
       /\ ~config_file.exists /\ ~env_file.exists
       /\ stats = "unset"
       /\ Exited => exit_code = (IF Connected THEN 0 ELSE 1)

C8_ConnectionOnlySucceeded ==
    /\ test_connection_only /\ Exited
    /\ Connected /\ exit_code = 0 /\ close_count = 1

----------------------------------------------------------------------------
(* C9 *)

\* C9: a failed collStats command is not fatal: get_collection_stats returns
\* None without raising, and the run, whose connect, provisioning and
\* publishing succeeded, completes with exit code 0.
C9_StatsFailureNotFatal ==
    Ended("collStats", {"Exception"})
    => /\ stats = None
       /\ pc \in {"finally", "exited"}
       /\ exit_code = 0
       /\ Connected /\ Provisioned /\ Published

C9_StatsFailedExitZero ==
    /\ Exited /\ Ended("collStats", {"Exception"})
    /\ stats = None /\ exit_code = 0

----------------------------------------------------------------------------
(* C10 *)

\* C10: test_document_inserted (and with it a successful provisioning) is
\* recorded only if the probe insert completed without fault and the
\* read-back by 'bootstrap_test' returned a document; a read-back that
\* returns nothing is a verification failure.
C10_VerifiedOnlyIfReadBack ==
    Provisioned
    => /\ Ended("insert_one", {"ok"})
       /\ Ended("find_one", {"document"})

----------------------------------------------------------------------------
(* C11 *)

WriteOps == {"write mongo_logger_config.json", "write mongo_logger_env.sh"}

\* The stage the i-th call of the run belongs to: 1 connect, 2 provision,
\* 3 index installation, 4 probe verification, 5 artifact publishing,
\* 6 statistics, 7 cleanup. The truth test of the handle opens publishing
\* (line 200) and, once the artifacts are written, statistics (line 248).
StageOf(i) ==
    LET op == calls[i].op IN
    IF op \in {"MongoClient", "ping", "server_info"} THEN 1
    ELSE IF op = "get_collection" THEN 2
    ELSE IF op = "create_index" THEN 3
    ELSE IF op \in {"insert_one", "find_one"} THEN 4
    ELSE IF op \in WriteOps THEN 5
    ELSE IF op = "collStats" THEN 6
    ELSE IF op = "bool(collection)"
    THEN (IF \E j \in 1..(i - 1) : calls[j].op = "write mongo_logger_env.sh"
          THEN 6 ELSE 5)
    ELSE 7

\* The i-th call completed its stage.
Completes(i) ==
    LET c == calls[i] IN
    \/ c.op = "server_info" /\ c.result = "ok"
    \/ c.op = "get_collection" /\ c.result = "ok"
    \/ /\ c.op = "create_index" /\ c.result \in {"ok", "Exception"}
       /\ Cardinality({j \in 1..i : calls[j].op = "create_index"}) = NumIndexes
    \/ c.op = "find_one" /\ c.result \in {"document", "None"}
    \/ c.op = "write mongo_logger_env.sh" /\ c.result = "ok"

\* C11 as stated: the statistics query is issued before the artifacts are
\* written.
C11_StatsBeforePublishing ==
    \A i \in DOMAIN calls :
        calls[i].op \in WriteOps => \E j \in 1..(i - 1) : calls[j].op = "collStats"

\* C11 amended: the stages of a full run start in the linear order connect,
\* provision, index installation, probe verification, artifact publishing,
\* statistics query; no stage starts before its predecessor has completed,
\* and the statistics query is issued only after both artifacts are written.
C11_StagesInCodeOrder ==
    /\ \A i \in 2..Len(calls) :
         LET before == StageOf(i - 1)
             stage == StageOf(i)
         IN  /\ before <= stage
             /\ (before < stage /\ stage <= 6)
                => (stage = before + 1 /\ Completes(i - 1))
    /\ \A i \in Made("collStats") :
         \E j \in 1..(i - 1) :
             calls[j].op = "write mongo_logger_env.sh" /\ calls[j].result = "ok"

C11_StatsAfterPublishing ==
    /\ Exited /\ Ended("collStats", {"ok"})
    /\ Ended("write mongo_logger_env.sh", {"ok"})
    /\ config_file.exists /\ env_file.exists

----------------------------------------------------------------------------
(* C12 *)

\* C12 as stated: when the client is constructed and the ping succeeds but
\* server_info fails, connect_to_mongodb still reports success (status
\* 'connected') and the run continues to provisioning.
C12_MetadataFailureNonFatal ==
    Ended("server_info", ConnectFaults)
    => /\ Connected
       /\ ~test_connection_only => pc # "finally" \/ Called("get_collection")

\* C12 amended: a failure to retrieve the server metadata fails the
\* connection like any other connection fault: connect_to_mongodb returns
\* False with status 'failed' and an error message, nothing after the connect
\* stage is started, and the run exits 1 (the client, already constructed, is
\* closed on the way out).
C12_MetadataFailureFailsConnect ==
    Ended("server_info", ConnectFaults)
    => /\ DOMAIN connection_info = {"status", "error"}
       /\ connection_info["status"] = "failed"
       /\ connection_info["error"] # ""
       /\ pc \in {"finally", "exited"} /\ exit_code = 1
       /\ \A op \in LaterOps : ~Called(op)
       /\ client # None
       /\ Exited => close_count = 1

C12_MetadataFaulted ==
    /\ Exited /\ ~test_connection_only
    /\ Ended("ping", {"ok"}) /\ Ended("server_info", {"Exception"})
    /\ exit_code = 1

----------------------------------------------------------------------------
(* C13 *)

\* C13: a fault of any class (server-selection timeout, configuration error,
\* any other Exception) raised by the client construction or by the ping
\* never escapes connect_to_mongodb: it returns False with the status
\* {'status': 'failed', 'error': message}, the message non-empty and chosen
\* by the class of the fault alone, so that a ping failure is reported
\* exactly like a construction failure.
C13_ConnectFaultsReportedAlike ==
    \A i \in DOMAIN calls :
        (calls[i].op \in {"MongoClient", "ping"} /\ calls[i].result \in ConnectFaults)
        => /\ DOMAIN connection_info = {"status", "error"}
           /\ connection_info["status"] = "failed"
           /\ connection_info["error"] # ""
           /\ connection_info["error"] = ConnectErrorMsg(calls[i].result)
           /\ pc \in {"finally", "exited"} /\ exit_code = 1
           /\ \A j \in DOMAIN calls : j > i => calls[j].op = "close"

C13_ConfigurationErrorReported ==
    /\ Exited /\ Ended("MongoClient", {"ConfigurationError"})
    /\ client = None /\ close_count = 0
    /\ connection_info["status"] = "failed"

----------------------------------------------------------------------------
(* C14 *)

Probes(docs) == {d \in docs : d._id = "bootstrap_test"}

\* C14: a production-mode run whose target collection already holds the
\* probe document of an earlier run overwrites that document without an
\* error: its insert completes, its provisioning succeeds once the read-back
\* has returned, and the collection still holds exactly one probe document,
\* the one of this run.
C14_SecondRunOverwritesProbe ==
    (/\ ~test_mode
     /\ EarlierProbe \in documents
     /\ Called("insert_one")
     /\ ~Ended("insert_one", {"Exception", KeyboardInterrupt}))
    => /\ Ended("insert_one", {"ok"})
       /\ Cardinality(Probes(documents)) = 1
       /\ EarlierProbe \notin documents
       /\ Ended("find_one", {"document", "None"}) => Provisioned

----------------------------------------------------------------------------
(* C15 *)

ErrorKeys == {"error", "setup_error"}

SuccessKeys ==
    {"status", "mongo_uri", "server_version", "connection_time", "database_name",
     "collection_name", "database_created", "collection_created",
     "indexes_created", "test_document_inserted"}

\* The faults a request to the server or a file write can raise.
StageFaults == ConnectFaults \cup ProbeFaults \cup {"InvalidName", "OSError"}

ConnectFaulted ==
    \E op \in {"MongoClient", "ping", "server_info"} : Ended(op, ConnectFaults)

\* C15 as stated: every stage fault (connect, provisioning or verification,
\* an individual index creation, statistics, publishing) adds an error entry
\* to connection_info.
C15_EveryFaultRecorded ==
    (\E i \in DOMAIN calls : calls[i].result \in StageFaults)
    => \E k \in DOMAIN connection_info : k \notin SuccessKeys

\* C15 amended: every fault raised by a request to the server or by a file
\* write is caught at its stage boundary and none propagates as an exception
\* (only the NotImplementedError of the handle truth test, see C1, and a
\* KeyboardInterrupt reach main); a connect failure records 'error' and a
\* provisioning or verification failure records 'setup_error' in
\* connection_info, while a failed index creation, a failed statistics query
\* and a failed publish are only printed and add no entry.
C15_FaultsCaughtOnlySomeRecorded ==
    /\ (Len(calls) > 0 /\ calls[Len(calls)].result \in StageFaults)
       => pc \notin {"except Exception", "except KeyboardInterrupt"}
    /\ pc = "except Exception"
       => /\ calls[Len(calls)].op = "bool(collection)"
          /\ calls[Len(calls)].result = "NotImplementedError"
    /\ "error" \in DOMAIN connection_info <=> ConnectFaulted
    /\ "setup_error" \in DOMAIN connection_info
         <=> (ProbeFaulted \/ Ended("get_collection", {"InvalidName"}))
    /\ DOMAIN connection_info \subseteq SuccessKeys \cup ErrorKeys

C15_IndexAndPublishFaultsUnrecorded ==
    /\ Exited /\ exit_code = 1
    /\ Ended("create_index", {"Exception"})
    /\ Ended("write mongo_logger_env.sh", {"OSError"})
    /\ DOMAIN connection_info \cap ErrorKeys = {}

----------------------------------------------------------------------------
(* C16 *)

\* The names the artifacts carry.
ConfigNames(file) == <<file.data[1].database_name, file.data[1].collection_name>>

EnvValue(file, name) ==
    {file.data[i].value :
        i \in {j \in DOMAIN file.data :
                   file.data[j].kind = "export" /\ file.data[j].name = name}}

\* Wherever the run uses the names, it uses the ones fixed at construction.
NamesUsedConsistently ==
    /\ Connected => /\ connection_info["database_name"] = db_name
                    /\ connection_info["collection_name"] = collection_name
    /\ Len(config_file.data) = 1 => ConfigNames(config_file) = <<db_name, collection_name>>
    /\ Len(env_file.data) > 0
       => /\ EnvValue(env_file, "MONGODB_LOGGER_DB") = {db_name}
          /\ EnvValue(env_file, "MONGODB_LOGGER_COLLECTION") = {collection_name}

\* C16: in test mode and in production mode, whatever the environment
\* supplies, the database name and the collection name are non-empty, are
\* never reassigned after construction, and are the names used to select the
\* handles, recorded in the connection status and written to both artifacts.
C16_NamesNonEmptyAndStable ==
    /\ db_name # "" /\ collection_name # ""
    /\ NamesUsedConsistently

\* The part of C16 that holds: the names are stable and used consistently,
\* and in test mode they are those of the construction time, however far the
\* clock has moved on.
C16_NamesStable ==
    /\ NamesUsedConsistently
    /\ test_mode => /\ db_name = DbNameOf(TRUE, constructed_at, None)
                    /\ collection_name = CollectionNameOf(TRUE, constructed_at, None)
                    /\ db_name # "" /\ collection_name # ""

----------------------------------------------------------------------------
(* C18 *)

----------------------------------------------------------------------------
(* C17 *)

ProvisionKeys ==
    {"database_created", "collection_created", "indexes_created",
     "test_document_inserted"}

\* One step of the run as the status sees it: no key is removed or changed
\* once the connect stage has set the status, and a step adds nothing, or
\* setup_error, or the four keys of the provisioning together.
StatusStep ==
    "status" \in DOMAIN connection_info
    => /\ \A k \in DOMAIN connection_info :
            /\ k \in DOMAIN connection_info'
            /\ connection_info'[k] = connection_info[k]
       /\ (DOMAIN connection_info' \ DOMAIN connection_info)
            \in {{}, {"setup_error"}, ProvisionKeys}

AddsProvisionKeys ==
    (DOMAIN connection_info' \ DOMAIN connection_info) = ProvisionKeys

\* C17: once the connect stage has set the status, no later step removes a
\* key of connection_info or changes the value of a key it holds; later
\* steps only add keys, and the success keys are added only when the
\* corresponding stage succeeded: the handles were obtained, create_indexes
\* has returned, and the verification (the probe insert and its read-back)
\* succeeded.
C17_AppendOnlyOnSuccess ==
    [][ /\ StatusStep
        /\ AddsProvisionKeys
           => /\ db' # None /\ collection' # None
              /\ IndexesReturned'
              /\ Ended("insert_one", {"ok"})'
              /\ Ended("find_one", {"document"})'
      ]_vars

\* The part of C17 that holds: the status is append-only, and the keys of
\* the provisioning are added together, only after the handles were
\* obtained, create_indexes returned (its list being the value of
\* indexes_created) and the probe insert completed.
C17_StatusAppendOnly ==
    [][ /\ StatusStep
        /\ AddsProvisionKeys
           => /\ db' # None /\ collection' # None
              /\ IndexesReturned'
              /\ connection_info'["indexes_created"] = SucceededNames'
              /\ Ended("insert_one", {"ok"})'
              /\ "setup_error" \notin DOMAIN connection_info'
      ]_vars

C17_AllKeysAccumulated ==
    /\ Exited /\ Connected
    /\ DOMAIN connection_info = SuccessKeys
    /\ Ended("create_index", {"Exception"})

----------------------------------------------------------------------------
(* C19 *)

\* C19: no artifact is written by a run that has not completed connect and
\* provisioning: whenever mongo_logger_config.json or mongo_logger_env.sh
\* exists, or a write of either was attempted, connect_to_mongodb and
\* setup_database_and_collection have returned True earlier in the run
\* (status 'connected', database_created set).
C19_ArtifactsOnlyAfterProvisioning ==
    (config_file.exists \/ env_file.exists \/ \E op \in WriteOps : Called(op))
    => /\ Connected
       /\ Provisioned
       /\ connection_info["database_created"]
       /\ \A i \in DOMAIN calls :
             calls[i].op \in WriteOps
             => \E j \in 1..(i - 1) :
                    calls[j].op = "find_one" /\ calls[j].result \in {"document", "None"}

C19_ConfigWritten ==
    /\ config_file.exists /\ Len(config_file.data) = 1
    /\ pc = "write env"
    /\ Connected /\ Provisioned

----------------------------------------------------------------------------
(* C20 *)

Complete(file) == file.exists /\ Len(file.data) > 0

WriteFailed == \E op \in WriteOps : Ended(op, {"OSError"})

\* C20 as stated: whenever the publish step fails and the run exits 1,
\* neither artifact of this run remains on disk.
C20_FailedPublishLeavesNothing ==
    (Exited /\ WriteFailed)
    => /\ exit_code = 1
       /\ ~config_file.exists /\ ~env_file.exists

\* C20 amended: the two artifacts are written in the fixed order JSON config
\* then env file; the env file is never written when the JSON write failed;
\* the publish step reports success only when both writes completed; when
\* it fails the run exits 1 and nothing is rolled back: a failed env write
\* leaves the complete JSON config on disk, and a failed write may leave its
\* own file behind, cut short.
C20_PublishInOrderNoRollback ==
    /\ \A i \in Made("write mongo_logger_env.sh") :
         \E j \in 1..(i - 1) :
             calls[j].op = "write mongo_logger_config.json" /\ calls[j].result = "ok"
    /\ ~Ended("write mongo_logger_config.json", {"ok"}) => ~env_file.exists
    /\ Ended("write mongo_logger_config.json", {"ok"}) => Complete(config_file)
    /\ (pc \in {"stats", "collStats"} \/ Called("collStats") \/ Published)
       => Complete(config_file) /\ Complete(env_file)
    /\ WriteFailed
       => /\ pc \in {"finally", "exited"} /\ exit_code = 1
          /\ ~Complete(env_file)
          /\ ~Called("collStats")
    /\ Ended("write mongo_logger_env.sh", {"OSError", KeyboardInterrupt})
       => Complete(config_file)

C20_EnvWriteFailedConfigStays ==
    /\ Exited /\ exit_code = 1
    /\ Ended("write mongo_logger_env.sh", {"OSError"})
    /\ Complete(config_file)
    /\ ~env_file.exists

----------------------------------------------------------------------------
Next ==
    \/ NewMongoClient
    \/ Ping
    \/ ServerInfo
    \/ SelectHandles
    \/ CreateSingleIndex
    \/ CreateCompoundIndex
    \/ InsertProbe
    \/ FindProbe
    \/ ExportCheckHandle
    \/ WriteConfig
    \/ WriteEnv
    \/ StatsCheckHandle
    \/ CollStats
    \/ ExceptKeyboardInterrupt
    \/ ExceptException
    \/ Cleanup
    \/ Tick

Spec == Init /\ [][Next]_vars
====
